---- MODULE Spec2Model ----
(***************************************************************************)
(* Model of src/git/repo.rs: GitRepo, a handle on an on-disk repository     *)
(* with branch listing, checkout, name validation, creation and deletion.  *)
(*                                                                         *)
(* The repository (ref store, HEAD, working tree) is the state.  Every     *)
(* call into the underlying library whose Result the code inspects or      *)
(* propagates has an outcome input; a Rust panic (unwrap on Err/None) ends *)
(* the process, which a new from_cwd() starts again.                       *)
(*                                                                         *)
(* Names are sequences of bytes so that equality is case-sensitive and     *)
(* validity and UTF-8 decoding are computed from the bytes.                *)
(***************************************************************************)
EXTENDS Naturals, Sequences, FiniteSets

VARIABLES
  refs,      \* local branch refs of the store: name -> entry
  head,      \* HEAD of the repository
  worktree,  \* commit whose tree the working directory holds, or "partial"
  logOn,     \* whether the log sink is enabled at error level
  alive,     \* the process holds a GitRepo handle (FALSE after a panic)
  op,        \* the last operation called and its argument
  result,    \* how the last operation ended
  calls,     \* the mutating library calls the last operation attempted, in order
  ret,       \* the value the last operation returned in Ok(..)
  fault      \* the library call that was made to fail in the last operation

vars == <<refs, head, worktree, logOn, alive, op, result, calls, ret, fault>>

\* Most local branches the repository holds when it is opened.
MaxBranches == 2

----------------------------------------------------------------------------
\* Names, as byte sequences.

nLower == <<97>>            \* "a"
nUpper == <<65>>            \* "A"
nSpace == <<97, 32, 98>>    \* "a b"
nDash  == <<45, 97>>        \* "-a"
nEmpty == <<>>              \* ""
nNul   == <<97, 0>>         \* "a\0"
nRaw   == <<255>>           \* a ref name that is not UTF-8

upUtf8 == <<111, 47, 97>>   \* "o/a"
upRaw  == <<111, 47, 255>>  \* a remote branch name that is not UTF-8

\* The &String arguments callers can pass (a Rust String is always UTF-8).
ArgNames == {nLower, nUpper, nSpace, nDash, nEmpty, nNul}

\* The names checkout and delete are called with: every name a branch can have
\* and one that no branch has.
TargetNames == {nLower, nUpper, nSpace}

Commits == {"c1", "c2"}

\* Branch::name() / str::from_utf8: the bytes decode as UTF-8.
Utf8(s) == \A i \in 1..Len(s) : s[i] < 128

\* Bytes the ref-naming rules forbid anywhere in a name: control characters,
\* space, DEL and  ~ ^ : ? * [ \
ForbiddenByte(b) == b < 33 \/ b = 127 \/ b \in {126, 94, 58, 63, 42, 91, 92}

\* Branch::name_is_valid (repo.rs:81): "err" when the name cannot be passed
\* to the library (interior NUL), else whether refs/heads/<name> is well formed
\* and the name does not start with '-'.
name_is_valid(s) ==
  IF \E i \in 1..Len(s) : s[i] = 0 THEN "err"
  ELSE IF Len(s) = 0 THEN "false"
  ELSE IF s[1] = 45 \/ s[1] = 46 \/ s[1] = 47 THEN "false"
  ELSE IF s[Len(s)] = 46 \/ s[Len(s)] = 47 THEN "false"
  ELSE IF \E i \in 1..Len(s) : ForbiddenByte(s[i]) THEN "false"
  ELSE IF \E i \in 1..(Len(s) - 1) : s[i] = 46 /\ s[i + 1] = 46 THEN "false"
  ELSE IF s = <<72, 69, 65, 68>> THEN "false"
  ELSE "true"

\* The names a local branch of the store can have.
RefNames == {n \in ArgNames : name_is_valid(n) = "true"} \cup {nRaw}

----------------------------------------------------------------------------
\* The store.

NoUpstream == [configured |-> FALSE, resolvable |-> FALSE, name |-> <<>>]

Absent == [present |-> FALSE, commit |-> "c1", upstream |-> NoUpstream, broken |-> FALSE]

Plain(c) == [present |-> TRUE, commit |-> c, upstream |-> NoUpstream, broken |-> FALSE]

\* The entries a repository opened by from_cwd can already hold.
InitEntries ==
  {Plain(c) : c \in Commits} \cup
  { [Plain("c1") EXCEPT !.upstream = [configured |-> TRUE, resolvable |-> TRUE,  name |-> upUtf8]],
    [Plain("c1") EXCEPT !.upstream = [configured |-> TRUE, resolvable |-> TRUE,  name |-> upRaw]],
    [Plain("c1") EXCEPT !.upstream = [configured |-> TRUE, resolvable |-> FALSE, name |-> <<>>]],
    [Plain("c1") EXCEPT !.broken = TRUE] }

Present(r) == {n \in RefNames : r[n].present}

OnBranch(n) == [kind |-> "branch",   name |-> n,     commit |-> "none"]
Detached(c) == [kind |-> "detached", name |-> <<>>,  commit |-> c]
SymRef      == [kind |-> "symref",   name |-> <<>>,  commit |-> "none"]

NoOp == [name |-> "none", arg |-> <<>>]

Init ==
  /\ refs \in {r \in [RefNames -> InitEntries \cup {Absent}] :
                 /\ Cardinality(Present(r)) <= MaxBranches
                 /\ r[nRaw] \in {Absent, Plain("c1")}}
  /\ head \in {OnBranch(n) : n \in RefNames \ {nRaw}} \cup {Detached("c1"), SymRef}
  /\ worktree = "c1"
  /\ logOn \in BOOLEAN
  /\ alive = TRUE
  /\ op = NoOp
  /\ result = "None"
  /\ calls = <<>>
  /\ ret = "unit"
  /\ fault = "none"

----------------------------------------------------------------------------
\* The library calls the operations make, as functions of the store.

\* Repository::head (repo.rs:86) and Reference::target (repo.rs:87): HEAD on a
\* branch resolves to that branch's commit, or fails when the branch is unborn
\* or unreadable; a detached HEAD has its commit; a reference that is still
\* symbolic has no target.
repo_head(r, h) ==
  IF h.kind = "branch"
  THEN IF r[h.name].present /\ ~r[h.name].broken
       THEN [ok |-> TRUE,  target |-> r[h.name].commit]
       ELSE [ok |-> FALSE, target |-> "None"]
  ELSE IF h.kind = "detached"
  THEN [ok |-> TRUE, target |-> h.commit]
  ELSE [ok |-> TRUE, target |-> "None"]

\* Branch::is_head (repo.rs:45).
is_head(h, n) == h.kind = "branch" /\ h.name = n

\* extract_upstream_branch (repo.rs:119-123): upstream().ok()? then
\* name().ok()?? - None unless the upstream resolves and its name decodes.
extract_upstream_branch(e) ==
  IF ~(e.upstream.configured /\ e.upstream.resolvable) THEN [some |-> FALSE, name |-> <<>>]
  ELSE IF ~Utf8(e.upstream.name) THEN [some |-> FALSE, name |-> <<>>]
  ELSE [some |-> TRUE, name |-> e.upstream.name]

\* A mutant of create_git_branch: is_head is left at its default.
create_git_branch_no_head(r, h, n) ==
  IF r[n].broken \/ ~Utf8(n)
  THEN [some |-> FALSE, value |-> [name |-> n, is_head |-> FALSE, upstream |-> [some |-> FALSE, name |-> <<>>]]]
  ELSE [some |-> TRUE,
        value |-> [name |-> n, is_head |-> FALSE, upstream |-> extract_upstream_branch(r[n])]]

\* create_git_branch (repo.rs:41-46) on the iteration entry of ref n: None for
\* an entry that is an error or whose name does not decode.
create_git_branch(r, h, n) ==
  IF r[n].broken
  THEN [some |-> FALSE, value |-> [name |-> n, is_head |-> FALSE, upstream |-> [some |-> FALSE, name |-> <<>>]]]
  ELSE IF ~Utf8(n)
  THEN [some |-> FALSE, value |-> [name |-> n, is_head |-> FALSE, upstream |-> [some |-> FALSE, name |-> <<>>]]]
  ELSE [some |-> TRUE,
        value |-> [name |-> n, is_head |-> is_head(h, n), upstream |-> extract_upstream_branch(r[n])]]

\* The Vec local_branches collects (repo.rs:50), as the set of its entries.
loaded_branches(r, h) ==
  {create_git_branch(r, h, n).value : n \in {m \in Present(r) : create_git_branch(r, h, m).some}}

\* A mutant of find_branch: the lookup accepts a name whose ref is gone.
find_branch_lax(r, n) == n \in RefNames /\ ~r[n].broken

\* Repository::find_branch (repo.rs:56) finds a readable local branch named n.
find_branch(r, n) == n \in RefNames /\ r[n].present /\ ~r[n].broken

\* A mutant of set_head: HEAD is not moved.
set_head_stale(h, n) == h

\* Repository::set_head (repo.rs:66), when it succeeds.
set_head(h, n) == OnBranch(n)

\* A mutant of checkout_phases: no return after a failed checkout_tree.
checkout_phases_no_return(treeOk, headOk) ==
  IF ~treeOk THEN [result |-> "CheckoutFailed", calls |-> <<"checkout_tree", "set_head">>, headSet |-> headOk]
  ELSE IF ~headOk THEN [result |-> "HeadUpdateFailed", calls |-> <<"checkout_tree", "set_head">>, headSet |-> FALSE]
  ELSE [result |-> "Ok", calls |-> <<"checkout_tree", "set_head">>, headSet |-> TRUE]

\* The two phases of checkout_branch_from_name (repo.rs:61-71).
checkout_phases(treeOk, headOk) ==
  IF ~treeOk THEN [result |-> "CheckoutFailed", calls |-> <<"checkout_tree">>, headSet |-> FALSE]
  ELSE IF ~headOk THEN [result |-> "HeadUpdateFailed", calls |-> <<"checkout_tree", "set_head">>, headSet |-> FALSE]
  ELSE [result |-> "Ok", calls |-> <<"checkout_tree", "set_head">>, headSet |-> TRUE]

\* A mutant of branch_force: create_branch passes force = true.
branch_force_true == TRUE

\* The force argument of Repository::branch (repo.rs:94).
branch_force == FALSE

\* A mutant of repo_branch: success is reported and no ref is written.
repo_branch_unwritten(r, n, c, force, storeOk) ==
  IF storeOk /\ name_is_valid(n) = "true" /\ (~r[n].present \/ force)
  THEN [ok |-> TRUE, refs |-> r]
  ELSE [ok |-> FALSE, refs |-> r]

\* Repository::branch (repo.rs:94): writes refs/heads/n at commit c unless the
\* name is rejected, the ref exists and force is off, or the store fails.
repo_branch(r, n, c, force, storeOk) ==
  IF storeOk /\ name_is_valid(n) = "true" /\ (~r[n].present \/ force)
  THEN [ok |-> TRUE, refs |-> [r EXCEPT ![n] = Plain(c)]]
  ELSE [ok |-> FALSE, refs |-> r]

\* A mutant of scan_match: the comparison ignores letter case ('A' = 'a').
scan_match_nocase(r, n) ==
  {m \in Present(r) : ~r[m].broken /\ Utf8(m) /\ (m = n \/ {m, n} = {nLower, nUpper})}

\* The scan of delete_branch (repo.rs:101-110): the entries that are not
\* errors, whose name decodes and equals the target.
scan_match(r, n) == {m \in Present(r) : ~r[m].broken /\ Utf8(m) /\ m = n}

\* Branch::delete (repo.rs:111): refuses the branch HEAD is on.
branch_delete(r, h, n, storeOk) ==
  IF storeOk /\ ~is_head(h, n)
  THEN [ok |-> TRUE, refs |-> [r EXCEPT ![n] = Absent]]
  ELSE [ok |-> FALSE, refs |-> r]

----------------------------------------------------------------------------
\* The operations.  Each takes the outcome of the library calls it makes as an
\* input f: "none", or the call that fails.

Return(o, a, f, res, cs, v) ==
  /\ op' = [name |-> o, arg |-> a]
  /\ fault' = f
  /\ result' = res
  /\ calls' = cs
  /\ ret' = v
  /\ alive' = (res # "Panic")

\* from_cwd (repo.rs:35-39), called by a process that holds no handle:
\* current_dir().expect(..) panics, Repository::discover(..)? returns the error.
from_cwd ==
  /\ ~alive
  /\ \E f \in {"cwd", "discover", "none"} :
       /\ op' = [name |-> "from_cwd", arg |-> <<>>]
       /\ fault' = f
       /\ result' = IF f = "cwd" THEN "Panic" ELSE IF f = "discover" THEN "DiscoveryFailed" ELSE "Ok"
       /\ alive' = (f = "none")
       /\ calls' = <<>>
       /\ ret' = "unit"
  /\ UNCHANGED <<refs, head, worktree, logOn>>

\* local_branches (repo.rs:48-52).
local_branches ==
  /\ alive
  /\ \E f \in {"iter", "none"} :
       IF f = "iter"
       THEN Return("local_branches", <<>>, f, "ListFailed", <<>>, "unit")
       ELSE Return("local_branches", <<>>, f, "Ok", <<>>, loaded_branches(refs, head))
  /\ UNCHANGED <<refs, head, worktree, logOn>>

\* The body of checkout_branch_from_name (repo.rs:54-72), called as o.  A
\* failed checkout_tree may have written part of the tree ("tree_partial").
Checkout(o, n) ==
  IF ~find_branch(refs, n)
  THEN /\ Return(o, n, "none", "BranchNotFound", <<>>, "unit")
       /\ UNCHANGED <<refs, head, worktree, logOn>>
  ELSE \E f \in {"peel", "tree", "tree_partial", "head", "none"} :
         IF f = "peel"
         THEN /\ Return(o, n, f, "PeelFailed", <<>>, "unit")
              /\ UNCHANGED <<refs, head, worktree, logOn>>
         ELSE LET treeOk == f \notin {"tree", "tree_partial"}
                  ph == checkout_phases(treeOk, f # "head") IN
              /\ Return(o, n, f, ph.result, ph.calls, "unit")
              /\ worktree' = IF treeOk THEN refs[n].commit
                             ELSE IF f = "tree_partial" THEN "partial" ELSE worktree
              /\ head' = IF ph.headSet THEN set_head(head, n) ELSE head
              /\ UNCHANGED <<refs, logOn>>

checkout_branch_from_name ==
  /\ alive
  /\ \E n \in TargetNames : Checkout("checkout_branch_from_name", n)

\* checkout_branch (repo.rs:74-76) on a GitBranch value with any name.
checkout_branch ==
  /\ alive
  /\ \E n \in TargetNames : Checkout("checkout_branch", n)

\* validate_branch_name (repo.rs:78-82).
validate_branch_name ==
  /\ alive
  /\ \E n \in ArgNames, f \in {"iter", "none"} :
       LET is_unique_name == ~\E b \in loaded_branches(refs, head) : b.name = n IN
       IF f = "iter"
       THEN Return("validate_branch_name", n, f, "ListFailed", <<>>, "unit")
       ELSE IF ~is_unique_name
       THEN Return("validate_branch_name", n, f, "Ok", <<>>, FALSE)
       ELSE IF name_is_valid(n) = "err"
       THEN Return("validate_branch_name", n, f, "NameCheckFailed", <<>>, "unit")
       ELSE Return("validate_branch_name", n, f, "Ok", <<>>, name_is_valid(n) = "true")
  /\ UNCHANGED <<refs, head, worktree, logOn>>

\* create_branch (repo.rs:84-97).  The error! of line 89 evaluates
\* head_oid.unwrap() on None when the log sink takes error records.
create_branch ==
  /\ alive
  /\ \E n \in ArgNames :
       LET hd == repo_head(refs, head) IN
       IF ~hd.ok
       THEN /\ Return("create_branch", n, "none", "HeadLookupFailed", <<>>, "unit")
            /\ UNCHANGED <<refs, head, worktree, logOn>>
       ELSE IF hd.target = "None"
       THEN /\ Return("create_branch", n, "none",
                      IF logOn THEN "Panic" ELSE "DetachedOrSymbolicHeadError", <<>>, "unit")
            /\ UNCHANGED <<refs, head, worktree, logOn>>
       ELSE \E f \in {"commit", "store", "none"} :
              IF f = "commit"
              THEN /\ Return("create_branch", n, f, "CommitLookupFailed", <<>>, "unit")
                   /\ UNCHANGED <<refs, head, worktree, logOn>>
              ELSE LET br == repo_branch(refs, n, hd.target, branch_force, f # "store") IN
                   /\ Return("create_branch", n, f,
                             IF br.ok THEN "Ok" ELSE "BranchCreationFailed", <<"branch">>, "unit")
                   /\ refs' = br.refs
                   /\ UNCHANGED <<head, worktree, logOn>>

\* delete_branch (repo.rs:99-116).  branch.delete().unwrap() panics when the
\* deletion fails.
delete_branch ==
  /\ alive
  /\ \E n \in TargetNames, f \in {"iter", "store", "none"} :
       IF f = "iter"
       THEN /\ Return("delete_branch", n, f, "ListFailed", <<>>, "unit")
            /\ UNCHANGED <<refs, head, worktree, logOn>>
       ELSE IF scan_match(refs, n) = {}
       THEN /\ Return("delete_branch", n, f, "Ok", <<>>, "unit")
            /\ UNCHANGED <<refs, head, worktree, logOn>>
       ELSE LET m == CHOOSE x \in scan_match(refs, n) : TRUE
                del == branch_delete(refs, head, m, f # "store") IN
            /\ Return("delete_branch", n, f, IF del.ok THEN "Ok" ELSE "Panic", <<"delete">>, "unit")
            /\ refs' = del.refs
            /\ UNCHANGED <<head, worktree, logOn>>

Next ==
  \/ from_cwd
  \/ local_branches
  \/ checkout_branch_from_name
  \/ checkout_branch
  \/ validate_branch_name
  \/ create_branch
  \/ delete_branch

Spec == Init /\ [][Next]_vars

----------------------------------------------------------------------------
\* Properties.

\* The step is a call of operation o (the process holds a handle, and the call
\* is the one op records afterwards).
Called(o) == alive /\ op'.name = o

\* A local branch named n exists in store r.
Exists(r, n) == n \in RefNames /\ r[n].present

\* C1: delete_branch, when the scan finds a branch named like the target and
\* the deletion call on it fails (the branch is still there), returns the error
\* BranchDeletionFailed; it neither returns success nor ends the process.
C1_DeletionFailureReturned ==
  (op.name = "delete_branch" /\ calls = <<"delete">> /\ Exists(refs, op.arg))
    => (result = "BranchDeletionFailed" /\ alive)

\* C2: create_branch, when head resolves to a reference without a target
\* commit, returns DetachedOrSymbolicHeadError, creates no branch and leaves the
\* process running, whether or not the log sink is enabled.
C2_NoTargetReturnsError ==
  [][(Called("create_branch") /\ repo_head(refs, head).ok /\ repo_head(refs, head).target = "None")
       => (result' = "DetachedOrSymbolicHeadError" /\ refs' = refs /\ alive')]_vars

\* C3: validate_branch_name(name), once it has the listing of a store whose
\* branches are all readable, returns false when name is the name of an
\* existing local branch, false (not an error) when name breaks the ref-naming
\* rules, and true otherwise.
C3_ValidateIsBoolean ==
  (/\ op.name = "validate_branch_name"
   /\ fault = "none"
   /\ \A m \in Present(refs) : ~refs[m].broken)
    => /\ result = "Ok"
       /\ ret = (~Exists(refs, op.arg) /\ name_is_valid(op.arg) = "true")

\* C4: after checkout_branch_from_name(n) has succeeded, a listing has the
\* branch named n, with is_head true, and is_head false for every other branch.
C4_CheckedOutIsOnlyHead ==
  (op.name = "checkout_branch_from_name" /\ result = "Ok")
    => /\ \E b \in loaded_branches(refs, head) : b.name = op.arg
       /\ \A b \in loaded_branches(refs, head) : b.is_head <=> (b.name = op.arg)

C4_Witness ==
  /\ op.name = "checkout_branch_from_name"
  /\ result = "Ok"
  /\ \E b \in loaded_branches(refs, head) : b.name # op.arg

\* C5: checkout_branch_from_name(n) with no local branch named n returns
\* BranchNotFound without attempting the tree checkout or the head update, and
\* leaves head, the working tree and the branches as they were.
C5_NotFoundChangesNothing ==
  [][(Called("checkout_branch_from_name") /\ ~Exists(refs, op'.arg))
       => /\ result' = "BranchNotFound"
          /\ calls' = <<>>
          /\ head' = head /\ worktree' = worktree /\ refs' = refs]_vars

C5_Witness ==
  /\ op.name = "checkout_branch_from_name"
  /\ result = "BranchNotFound"
  /\ ~Exists(refs, op.arg)
  /\ Present(refs) # {}

\* The listing of store r under head h without the entry named n.
ListingWithout(r, h, n) == {b \in loaded_branches(r, h) : b.name # n}

ListedAt(r, h, n, c) ==
  /\ Exists(r, n)
  /\ r[n].commit = c
  /\ \E b \in loaded_branches(r, h) : b.name = n

\* C7 as claimed: create_branch(b), when head points directly at a commit c
\* that loads and no local branch named b.name exists, succeeds, and the
\* listing right after has a branch named b.name that points at c.
C7_CreateSucceeds ==
  [][(/\ Called("create_branch")
      /\ repo_head(refs, head).ok
      /\ repo_head(refs, head).target \in Commits
      /\ fault' # "commit"
      /\ ~Exists(refs, op'.arg))
       => /\ result' = "Ok"
          /\ ListedAt(refs', head', op'.arg, repo_head(refs, head).target)]_vars

\* C7 amended: the same, provided b.name is a valid branch name and the
\* underlying creation call does not fail.
C7_CreateValidNameSucceeds ==
  [][(/\ Called("create_branch")
      /\ repo_head(refs, head).ok
      /\ repo_head(refs, head).target \in Commits
      /\ fault' = "none"
      /\ name_is_valid(op'.arg) = "true"
      /\ ~Exists(refs, op'.arg))
       => /\ result' = "Ok"
          /\ ListedAt(refs', head', op'.arg, repo_head(refs, head).target)]_vars

C7_Witness ==
  /\ op.name = "create_branch"
  /\ result = "Ok"
  /\ ListedAt(refs, head, op.arg, "c2")
  /\ head.kind = "branch"
  /\ head.name # op.arg
  /\ \E m \in Present(refs) : refs[m].commit = "c1"

\* The names local_branches is to list: the local branches whose iteration
\* entry is not an error and whose name decodes as UTF-8.
Listable(r) == {n \in Present(r) : ~r[n].broken /\ Utf8(n)}

\* C8 as claimed: local_branches returns exactly one entry per local branch
\* whose name decodes and whose iteration entry is not an error, with is_head
\* true iff the branch is the current head and upstream present iff an upstream
\* is configured and resolvable.
C8_ListingExact ==
  (op.name = "local_branches" /\ result = "Ok")
    => /\ {b.name : b \in ret} = Listable(refs)
       /\ Cardinality(ret) = Cardinality(Listable(refs))
       /\ \A b \in ret :
            /\ b.is_head <=> (head.kind = "branch" /\ head.name = b.name)
            /\ b.upstream.some <=>
                 (refs[b.name].upstream.configured /\ refs[b.name].upstream.resolvable)

\* C8 amended: the same, with upstream present iff an upstream is configured,
\* resolvable and has a name that decodes as UTF-8 (and then it is that name).
C8_ListingExactUtf8Upstream ==
  (op.name = "local_branches" /\ result = "Ok")
    => /\ {b.name : b \in ret} = Listable(refs)
       /\ Cardinality(ret) = Cardinality(Listable(refs))
       /\ \A b \in ret :
            /\ b.is_head <=> (head.kind = "branch" /\ head.name = b.name)
            /\ b.upstream.some <=>
                 (/\ refs[b.name].upstream.configured
                  /\ refs[b.name].upstream.resolvable
                  /\ Utf8(refs[b.name].upstream.name))
            /\ b.upstream.some => b.upstream.name = refs[b.name].upstream.name

C8_Witness ==
  /\ op.name = "local_branches"
  /\ result = "Ok"
  /\ \E b \in ret : b.is_head /\ b.upstream.some
  /\ \E b \in ret : ~b.is_head
  /\ Present(refs) # Listable(refs)

\* C9 as claimed: create_branch(b), when a local branch named b.name exists,
\* returns the creation error of the underlying call, made without a check of
\* its own, and the existing branch, head and all other branches are unchanged.
\* (Stated for the calls in which no commit lookup fails.)
C9_CollisionReturnsCreationError ==
  [][(Called("create_branch") /\ Exists(refs, op'.arg) /\ fault' # "commit")
       => /\ result' = "BranchCreationFailed"
          /\ calls' = <<"branch">>
          /\ refs' = refs /\ head' = head]_vars

\* C9 amended: create_branch(b), when a local branch named b.name exists,
\* leaves that branch, head and all other branches unchanged; and when head
\* resolves to a direct reference whose commit loads, it returns the creation
\* error of the underlying call, made without a check of its own.
C9_CollisionKeepsBranch ==
  [][(Called("create_branch") /\ Exists(refs, op'.arg))
       => /\ refs' = refs /\ head' = head /\ worktree' = worktree
          /\ (/\ repo_head(refs, head).ok
              /\ repo_head(refs, head).target \in Commits
              /\ fault' # "commit")
               => (result' = "BranchCreationFailed" /\ calls' = <<"branch">>)]_vars

C9_Witness ==
  /\ op.name = "create_branch"
  /\ result = "BranchCreationFailed"
  /\ fault = "none"
  /\ Exists(refs, op.arg)
  /\ repo_head(refs, head).ok
  /\ repo_head(refs, head).target # refs[op.arg].commit

\* C10: checkout_branch_from_name makes its library calls in the order
\* checkout_tree, set_head and undoes nothing: when checkout_tree fails the call
\* returns CheckoutFailed, set_head is not attempted and head is unchanged; when
\* checkout_tree succeeds and set_head fails the call returns HeadUpdateFailed,
\* the working tree is the target branch's and head is the previous one.
C10_TreeThenHeadNoRollback ==
  [][Called("checkout_branch_from_name")
       => /\ calls' \in {<<>>, <<"checkout_tree">>, <<"checkout_tree", "set_head">>}
          /\ fault' \in {"tree", "tree_partial"}
               => (result' = "CheckoutFailed" /\ calls' = <<"checkout_tree">> /\ head' = head)
          /\ result' = "CheckoutFailed"
               => (fault' \in {"tree", "tree_partial"} /\ calls' = <<"checkout_tree">> /\ head' = head)
          /\ fault' = "head"
               => /\ result' = "HeadUpdateFailed"
                  /\ calls' = <<"checkout_tree", "set_head">>
                  /\ worktree' = refs[op'.arg].commit
                  /\ head' = head
          /\ result' = "HeadUpdateFailed" => fault' = "head"
          /\ refs' = refs]_vars

C10_Witness ==
  /\ op.name = "checkout_branch_from_name"
  /\ result = "HeadUpdateFailed"
  /\ worktree = refs[op.arg].commit
  /\ head.kind = "branch"
  /\ head.name # op.arg
  /\ Exists(refs, head.name)
  /\ refs[head.name].commit # worktree

====
